---- MODULE Spec2Model ----
(***************************************************************************)
(* Model of optimisticside/triangle-solver (src/src/triangle.py).          *)
(*                                                                         *)
(* Python floats are modelled in fixed point:                              *)
(*   - a side length v is the integer v * LenScale,                        *)
(*   - an angle of r radians is the integer r * AngScale, an angle of d    *)
(*     degrees at the public boundary is the integer d * AngScale,         *)
(*   - a sine, cosine or other ratio q is the integer q * Unit.            *)
(* Indices are 0..2 as in the source; None is Python's None.  A call that  *)
(* can raise returns a record whose err field names the exception.         *)
(***************************************************************************)
EXTENDS Integers, Sequences, FiniteSets, TLC

\* An optional float is a tuple: None is the empty tuple, a known value v is
\* <<v>> and Val reads it.
None == <<>>
Some(v) == <<v>>
Val(x) == x[1]
Idx == 0..2

LenScale == 1000
AngScale == 10000
Unit == 1000000

\* math.pi and math.pi / 2 in units of 1/AngScale radian
PI == 31416
HalfPI == 15708
\* abs_tol=0.01 of math.isclose, in units of 1/AngScale radian
AbsTol == 100

(***************************************************************************)
(* Float arithmetic.                                                       *)
(***************************************************************************)
Abs(x) == IF x < 0 THEN -x ELSE x

\* floor(r * b / c) for 0 <= r < c and b >= 0, taking the decimal digits of
\* b from the highest (at the power of ten pw) to the lowest, so that no
\* intermediate product leaves the machine integer range: q is the quotient
\* and t the remainder carried so far.
RECURSIVE MulDivDigits(_, _, _, _, _, _, _)
MulDivCarry(q, t, r, b, c, pw, bs) ==
    MulDivDigits(q * bs + (t \div c), t % c, r, b, c, pw, bs)

MulDivDigits(q, rem, r, b, c, pw, bs) ==
    IF pw = 0 THEN q
    ELSE MulDivCarry(q, rem * bs + r * ((b \div pw) % bs), r, b, c, pw \div bs, bs)

\* floor(a * b / c) for b >= 0 and c > 0: decimal digits of b for a small
\* divisor, binary digits for a large one
MulDiv(a, b, c) ==
    (a \div c) * b
      + (IF c <= 100000000
         THEN MulDivDigits(0, 0, a % c, b, c, 1000000000, 10)
         ELSE MulDivDigits(0, 0, a % c, b, c, 1073741824, 2))

\* the float expression a * b / c, for c # 0
Ratio(a, b, c) == MulDiv(IF (b < 0) # (c < 0) THEN -a ELSE a, Abs(b), Abs(c))

\* math.sqrt on a non-negative number: the floor of the square root
RECURSIVE SqrtSearch(_, _, _)
SqrtSearch(n, lo, hi) ==
    IF lo >= hi THEN lo
    ELSE LET mid == (lo + hi + 1) \div 2
         IN  IF mid * mid <= n THEN SqrtSearch(n, mid, hi)
             ELSE SqrtSearch(n, lo, mid - 1)

Sqrt(n) == SqrtSearch(n, 0, 46340)

\* the sine series in Horner form, sin x = x * H(1) with
\* H(n) = 1 - x^2 / ((n + 1) (n + 2)) * H(n + 2); x2 is x^2 in 1/Unit
RECURSIVE SinHorner(_, _)
SinHorner(x2, n) ==
    IF n > 13 THEN Unit
    ELSE Unit - MulDiv(x2, SinHorner(x2, n + 2), Unit) \div ((n + 1) * (n + 2))

\* the sine of x on [0, pi/2], x in 1/Unit radian
SinSeries(x) == MulDiv(x, SinHorner(MulDiv(x, x, Unit), 1), Unit)

\* the sine of every angle of [0, pi/2], in 1/Unit
SinTable == [x \in 0..HalfPI |-> IF x = HalfPI THEN Unit
                                 ELSE SinSeries(x * (Unit \div AngScale))]

\* math.sin, for x in 1/AngScale radian, result in 1/Unit
Sin(x) ==
    LET r == x % (2 * PI)
    IN  IF r <= HalfPI THEN SinTable[r]
        ELSE IF r <= PI THEN SinTable[PI - r]
        ELSE IF r <= PI + HalfPI THEN -SinTable[r - PI]
        ELSE -SinTable[2 * PI - r]

\* math.cos
Cos(x) == Sin(HalfPI - x)

\* the largest angle in [0, pi/2] whose sine is at most y, by bisection
RECURSIVE AsinSearch(_, _, _)
AsinSearch(y, lo, hi) ==
    IF lo >= hi THEN lo
    ELSE LET mid == (lo + hi + 1) \div 2
         IN  IF SinTable[mid] <= y THEN AsinSearch(y, mid, hi)
             ELSE AsinSearch(y, lo, mid - 1)

\* of lo and lo + 1, the angle whose sine is nearest to y
AsinNearest(y, lo) ==
    IF lo < HalfPI /\ SinTable[lo + 1] - y < y - SinTable[lo] THEN lo + 1 ELSE lo

\* math.asin on a value in [-Unit, Unit]
Asin(y) == (IF y < 0 THEN -1 ELSE 1) * AsinNearest(Abs(y), AsinSearch(Abs(y), 0, HalfPI))

\* math.acos on a value in [-Unit, Unit]
Acos(y) == HalfPI - Asin(y)

\* math.radians, from 1/AngScale degree to 1/AngScale radian
Radians(d) == Ratio(d, PI, 180 * AngScale)

(***************************************************************************)
(* Helpers of triangle.py.                                                 *)
(***************************************************************************)
\* rest(arr, n): the indices of the two elements other than n, in order
RestA(n) == IF n = 0 THEN 1 ELSE 0
RestB(n) == IF n = 2 THEN 1 ELSE 2

\* ensure_size(arr, None, 3)
ensure_size(arr) == [x \in Idx |-> IF x < Len(arr) THEN arr[x + 1] ELSE None]

\* len([x for x in arr if x is not None])
Count(arr) == Cardinality({x \in Idx : arr[x] # None})

\* math.isclose(x, y, abs_tol=0.01): the relative tolerance 1e-9 is below
\* the fixed-point resolution
IsClose(x, y) == Abs(x - y) <= AbsTol

\* How a call ends: "none" when nothing is raised, a TriangleError name
\* when a TriangleException is raised, else the name of a Python exception.
TriangleError ==
    {"NOT_ENOUGH_VARIABLES", "TOO_MANY_VARIABLES", "NO_SIDES",
     "INVALID_SIDE", "INVALID_ANGLE", "INVALID_TRIANGLE"}
RawError == {"ValueError", "ZeroDivisionError", "TypeError"}

(***************************************************************************)
(* TriangleSolver.validate                                                 *)
(***************************************************************************)
\* a validate_side that accepts every side, with which the triangle
\* inequality of the completed candidates is compared
validate_side_unchecked(s, i) == TRUE

validate_side(s, i) ==
    LET a == s[RestA(i)]
        b == s[RestB(i)]
    IN  (a = None \/ b = None)
        \/ (Val(s[i]) < Val(a) + Val(b) /\ Val(s[i]) > Abs(Val(a) - Val(b)))

validate_angle(an, i) == Val(an[i]) < PI

\* math.acos(c): [err, angle]
AcosOf(c) ==
    IF c > Unit \/ c < -Unit THEN [err |-> "ValueError", angle |-> 0]
    ELSE [err |-> "none", angle |-> Acos(c)]

\* math.acos((a**2 + b**2 - sides[i]**2) / (2 * a * b)) with
\* a, b = rest(sides, i): [err, angle]
LawOfCosines(s, i) ==
    LET a == s[RestA(i)]
        b == s[RestB(i)]
    IN  IF a = None \/ b = None \/ s[i] = None
        THEN [err |-> "TypeError", angle |-> 0]
        ELSE IF 2 * Val(a) * Val(b) = 0
        THEN [err |-> "ZeroDivisionError", angle |-> 0]
        ELSE AcosOf(Ratio(Val(a) * Val(a) + Val(b) * Val(b) - Val(s[i]) * Val(s[i]),
                          Unit, 2 * Val(a) * Val(b)))

\* the loop of validate from index i on; ValidateMatch is the end of the
\* loop body, once the angle c is recomputed from the sides
RECURSIVE ValidateLoop(_, _, _, _)
ValidateMatch(c, s, an, complete, i) ==
    IF c.err # "none" THEN c.err
    ELSE IF ~IsClose(c.angle, Val(an[i])) THEN "INVALID_TRIANGLE"
    ELSE ValidateLoop(s, an, complete, i + 1)

ValidateLoop(s, an, complete, i) ==
    IF i = 3 THEN "none"
    ELSE IF s[i] # None /\ ~validate_side(s, i) THEN "INVALID_SIDE"
    ELSE IF an[i] = None THEN ValidateLoop(s, an, complete, i + 1)
    ELSE IF ~validate_angle(an, i) THEN "INVALID_ANGLE"
    ELSE IF ~complete THEN ValidateLoop(s, an, complete, i + 1)
    ELSE ValidateMatch(LawOfCosines(s, i), s, an, complete, i)

\* count checks that look for the missing side first, with which the order
\* of the three count errors is compared
ValidateCountsSidesFirst(s, an) ==
    IF Count(s) = 0 THEN "NO_SIDES"
    ELSE IF Count(s) + Count(an) > 3 THEN "TOO_MANY_VARIABLES"
    ELSE IF Count(s) + Count(an) < 3 THEN "NOT_ENOUGH_VARIABLES"
    ELSE "none"

\* the count checks that end validate, made when complete is false
ValidateCounts(s, an) ==
    IF Count(s) + Count(an) > 3 THEN "TOO_MANY_VARIABLES"
    ELSE IF Count(s) + Count(an) < 3 THEN "NOT_ENOUGH_VARIABLES"
    ELSE IF Count(s) = 0 THEN "NO_SIDES"
    ELSE "none"

\* an end of validate that never counts the known values, with which the
\* outcome of solving a complete triangle again is compared
ValidateEndUncounted(e, s, an, complete) == e

\* validate after its loop ended with e
ValidateEnd(e, s, an, complete) ==
    IF e # "none" THEN e
    ELSE IF complete THEN "none"
    ELSE ValidateCounts(s, an)

\* a validate that runs the consistency check of its loop on every call,
\* with which the outcome on over-determined inputs is compared
validate_consistency_first(s, an, complete) ==
    ValidateEnd(ValidateLoop(s, an, TRUE, 0), s, an, complete)

validate(s, an, complete) == ValidateEnd(ValidateLoop(s, an, complete, 0), s, an, complete)

(***************************************************************************)
(* The calculations                                                        *)
(***************************************************************************)
is_ambigous(s, an, a, b) ==
    /\ Val(an[b]) < HalfPI
    /\ Val(s[a]) < Val(s[b])
    /\ Val(s[a]) > Ratio(Val(s[b]), Sin(Val(an[a])), Unit)

\* calculate_last_angle from index i on: [err, angles]
RECURSIVE LastAngleLoop(_, _)
LastAngleLoop(an, i) ==
    IF i = 3 THEN [err |-> "none", angles |-> an]
    ELSE IF an[i] # None THEN LastAngleLoop(an, i + 1)
    ELSE IF an[RestA(i)] = None \/ an[RestB(i)] = None
    THEN [err |-> "TypeError", angles |-> an]
    ELSE LastAngleLoop(
             [an EXCEPT ![i] = Some(PI - (Val(an[RestA(i)]) + Val(an[RestB(i)])))],
             i + 1)

calculate_last_angle(an) == LastAngleLoop(an, 0)

\* the two loops of calculate_two_sides from (i, j) on: [err, sides, angles]
RECURSIVE TwoSidesLoop(_, _, _, _)
TwoSidesLoop(s, an, i, j) ==
    IF i = 3 THEN [err |-> "none", sides |-> s, angles |-> an]
    ELSE IF s[i] = None \/ j = 3 THEN TwoSidesLoop(s, an, i + 1, 0)
    ELSE IF s[j] # None THEN TwoSidesLoop(s, an, i, j + 1)
    ELSE IF Sin(Val(an[i])) = 0
    THEN [err |-> "ZeroDivisionError", sides |-> s, angles |-> an]
    ELSE TwoSidesLoop(
             [s EXCEPT ![j] = Some(Ratio(Sin(Val(an[j])), Val(s[i]), Sin(Val(an[i]))))],
             an, i, j + 1)

\* calculate_two_sides once calculate_last_angle returned l
TwoSidesFill(l, s) ==
    IF l.err # "none" THEN [err |-> l.err, sides |-> s, angles |-> l.angles]
    ELSE TwoSidesLoop(s, l.angles, 0, 0)

\* calculate_two_sides: [err, sides, angles]
calculate_two_sides(s, an) == TwoSidesFill(calculate_last_angle(an), s)

\* the loop of calculate_three_angles from index i on: [err, angles];
\* ThreeAnglesSet stores the angle c of index i
RECURSIVE ThreeAnglesLoop(_, _, _)
ThreeAnglesSet(c, s, an, i) ==
    IF c.err # "none" THEN [err |-> c.err, angles |-> an]
    ELSE ThreeAnglesLoop(s, [an EXCEPT ![i] = Some(c.angle)], i + 1)

ThreeAnglesLoop(s, an, i) ==
    IF i = 3 THEN [err |-> "none", angles |-> an]
    ELSE ThreeAnglesSet(LawOfCosines(s, i), s, an, i)

calculate_three_angles(s, an) == ThreeAnglesLoop(s, an, 0)

\* self.area: s * (s - sides[0]) * (s - sides[1]) * (s - sides[2]) with
\* s = p / 2
HeronProduct(s, p) ==
    Ratio(Ratio(Ratio(p, p - 2 * Val(s[0]), 4 * LenScale),
                p - 2 * Val(s[1]), 2 * LenScale),
          p - 2 * Val(s[2]), 2 * LenScale)

\* an argument of math.sqrt for medians[i] that halves the whole sum, with
\* which the median formula is compared
MedianRadicandHalved(s, i) ==
    ((Val(s[RestA(i)]) * Val(s[RestA(i)]) + Val(s[RestB(i)]) * Val(s[RestB(i)])
        - Val(s[i]) * Val(s[i])) \div 2) \div 2

\* the argument of math.sqrt for medians[i]:
\* (sides[a]**2 + sides[b]**2 - sides[i]**2 / 2) / 2
MedianRadicand(s, i) ==
    (Val(s[RestA(i)]) * Val(s[RestA(i)]) + Val(s[RestB(i)]) * Val(s[RestB(i)])
       - (Val(s[i]) * Val(s[i])) \div 2) \div 2

\* calculate_other on known sides and angles
OtherValues(s, an) ==
    [err |-> IF \E i \in Idx : MedianRadicand(s, i) < 0 THEN "ValueError" ELSE "none",
     perimeter |-> Some(Val(s[0]) + Val(s[1]) + Val(s[2])),
     area |-> Some(HeronProduct(s, Val(s[0]) + Val(s[1]) + Val(s[2]))),
     altitudes |-> [i \in Idx |->
         Some(Ratio(Sin(Val(an[RestA(i)])), Val(s[RestB(i)]), Unit))],
     medians |-> [i \in Idx |->
         IF MedianRadicand(s, i) < 0 THEN None
         ELSE Some(Sqrt(MedianRadicand(s, i)))]]

\* calculate_other: [err, perimeter, area, altitudes, medians]; sum and
\* math.sin raise a TypeError on None
calculate_other(s, an) ==
    IF \E i \in Idx : s[i] = None \/ an[i] = None
    THEN [err |-> "TypeError", perimeter |-> None, area |-> None,
          altitudes |-> [i \in Idx |-> None], medians |-> [i \in Idx |-> None]]
    ELSE OtherValues(s, an)

\* The copy of the ambiguity branch of calculate_two_angles: it is made of
\* the sides s and angles an of the primary with angles[j] replaced, then
\* completed (t), validated (v) and given its derived quantities (o).
\* [err, copy]
AlternativeOther(o, t) ==
    [err |-> o.err,
     copy |-> Some([is_alternative |-> TRUE, alternative |-> None,
                    sides |-> t.sides, angles |-> t.angles,
                    perimeter |-> o.perimeter, area |-> o.area,
                    altitudes |-> o.altitudes, medians |-> o.medians])]

AlternativeValidated(v, t) ==
    IF v # "none" THEN [err |-> v, copy |-> None]
    ELSE AlternativeOther(calculate_other(t.sides, t.angles), t)

AlternativeSolved(t) ==
    IF t.err # "none" THEN [err |-> t.err, copy |-> None]
    ELSE AlternativeValidated(validate(t.sides, t.angles, TRUE), t)

BuildAlternative(s, an, j) ==
    AlternativeSolved(calculate_two_sides(s, [an EXCEPT ![j] = Some(PI - Val(an[j]))]))

\* The body of the inner loop of calculate_two_angles for the known angle i
\* and the known side j # i.  st is the solver, [sides, angles,
\* is_alternative, alternative], with err and the two counters built (copies
\* constructed) and checks (calls of is_ambigous).
SsaFinish(t, st) == [st EXCEPT !.sides = t.sides, !.angles = t.angles, !.err = t.err]

SsaAttach(c, st) ==
    IF c.err # "none" THEN [st EXCEPT !.err = c.err]
    ELSE SsaFinish(calculate_two_sides(st.sides, st.angles),
                   [st EXCEPT !.alternative = c.copy])

SsaAmbiguity(st, i, j) ==
    IF is_ambigous(st.sides, st.angles, i, j) /\ ~st.is_alternative
    THEN SsaAttach(BuildAlternative(st.sides, st.angles, j),
                   [st EXCEPT !.built = @ + 1])
    ELSE SsaFinish(calculate_two_sides(st.sides, st.angles), st)

SsaAngle(y, st, j) ==
    IF y > Unit \/ y < -Unit THEN [st EXCEPT !.err = "ValueError"]
    ELSE [st EXCEPT !.angles[j] = Some(Asin(y)), !.checks = @ + 1]

SsaChecked(st, i, j) ==
    IF st.err # "none" THEN st ELSE SsaAmbiguity(st, i, j)

SsaStep(st, i, j) ==
    IF Val(st.sides[i]) = 0 THEN [st EXCEPT !.err = "ZeroDivisionError"]
    ELSE SsaChecked(
             SsaAngle(Ratio(Sin(Val(st.angles[i])), Val(st.sides[j]), Val(st.sides[i])),
                      st, j),
             i, j)

\* the inner loop "for j in range(3)" from j on
RECURSIVE SsaLoop(_, _, _)
SsaLoop(st, i, j) ==
    IF j = 3 \/ st.err # "none" THEN st
    ELSE IF st.sides[j] = None \/ i = j THEN SsaLoop(st, i, j + 1)
    ELSE SsaLoop(SsaStep(st, i, j), i, j + 1)

\* the SAS branch: sides[i] = math.sqrt(r), then calculate_three_angles
SasAngles(t, st) == [st EXCEPT !.angles = t.angles, !.err = t.err]

SasSide(side, st, i) ==
    SasAngles(calculate_three_angles([st.sides EXCEPT ![i] = Some(side)], st.angles),
              [st EXCEPT !.sides[i] = Some(side)])

SasRadicand(r, st, i) ==
    IF r < 0 THEN [st EXCEPT !.err = "ValueError"] ELSE SasSide(Sqrt(r), st, i)

SasStep(st, i) ==
    LET a == st.sides[RestA(i)]
        b == st.sides[RestB(i)]
    IN  IF a = None \/ b = None THEN [st EXCEPT !.err = "TypeError"]
        ELSE SasRadicand(Val(a) * Val(a) + Val(b) * Val(b)
                           - Ratio(2 * Val(a) * Val(b), Cos(Val(st.angles[i])), Unit),
                         st, i)

\* the outer loop "for i in range(3)" of calculate_two_angles from i on
RECURSIVE TwoAnglesLoop(_, _)
TwoAnglesLoop(st, i) ==
    IF i = 3 \/ st.err # "none" THEN st
    ELSE IF st.angles[i] = None THEN TwoAnglesLoop(st, i + 1)
    ELSE IF st.sides[i] = None THEN TwoAnglesLoop(SasStep(st, i), i + 1)
    ELSE TwoAnglesLoop(SsaLoop(st, i, 0), i + 1)

calculate_two_angles(st) == TwoAnglesLoop(st, 0)

(***************************************************************************)
(* The calls of solve(sides, angles)                                       *)
(***************************************************************************)
\* bounds of the inputs
MaxSide == 5
MaxKnown == 4
MaxSolves == 2

\* side lengths and angles in degrees a caller passes
SideValues == {-1, 0} \cup (3..MaxSide)
AngleDegrees == {-40, 0, 41, 120, 180}

SideInputs == {None} \cup {Some(v * LenScale) : v \in SideValues}
AngleInputs == {None} \cup {Some(d * AngScale) : d \in AngleDegrees}

\* lists of at most three entries; a list that ends in None is left out, as
\* ensure_size pads it to the same triple as the list without that entry
InputLists(S) == {l \in UNION {[1..n -> S] : n \in 0..3} : l = <<>> \/ l[Len(l)] # None}
Known(arr) == Cardinality({x \in DOMAIN arr : arr[x] # None})

VARIABLES
    given,      \* the arguments of solve(sides, angles), angles in degrees
    solver,     \* the TriangleSolver object
    pc,         \* where the call of solve is
    err,        \* the exception that ended the call, "none" if none
    result,     \* the Triangle returned
    built,      \* copies constructed by the ambiguity branch in this call
    checks,     \* calls of is_ambigous in this call
    solves,     \* calls of solve made so far
    prior,      \* the Triangle returned by the previous call
    impl,       \* the source file of the TriangleSolver that runs
    heap,       \* the list objects of the ambiguity branch, by name
    objs,       \* the solver objects of the ambiguity branch: which list
                \* objects their sides and angles attributes refer to
    branch,     \* where the ambiguity branch is: [pc, err, i, j]
    snap        \* the values of the lists of the primary when the copy was
                \* made, and of the copy when it was attached

\* the variables of the ambiguity branch taken apart
branchVars == <<impl, heap, objs, branch, snap>>

vars == <<given, solver, pc, err, result, built, checks, solves, prior, branchVars>>

\* angles = [math.radians(x) if x else None for x in angles]
ToRadians(arr) ==
    [x \in DOMAIN arr |->
        IF arr[x] = None \/ Val(arr[x]) = 0 THEN None ELSE Some(Radians(Val(arr[x])))]

\* TriangleSolver.__init__(sides, angles) with the class attributes
TriangleSolver(sd, an) ==
    [sides |-> sd,
     angles |-> an,
     altitudes |-> [i \in Idx |-> None],
     medians |-> [i \in Idx |-> None],
     is_alternative |-> FALSE,
     alternative |-> None,
     perimeter |-> None,
     area |-> None]

\* TriangleSolver(ensure_size(sides, None, 3), ensure_size(angles, None, 3))
\* on the converted angles
NewSolver(sd, an) == TriangleSolver(ensure_size(sd), ensure_size(ToRadians(an)))

Init ==
    /\ \E sd \in InputLists(SideInputs), an \in InputLists(AngleInputs) :
          /\ Known(sd) + Known(an) <= MaxKnown
          /\ given = [sides |-> sd, angles |-> an]
          /\ solver = NewSolver(sd, an)
    /\ pc = "constructed"
    /\ err = "none"
    /\ result = None
    /\ built = 0
    /\ checks = 0
    /\ solves = 1
    /\ prior = None
    /\ impl = "triangle.py"
    /\ heap = <<>>
    /\ objs = <<>>
    /\ branch = <<>>
    /\ snap = <<>>

\* the call goes on at next, or ends with the exception e
Continue(e, next) ==
    /\ pc' = IF e # "none" THEN "raised" ELSE next
    /\ err' = e

\* self.validate()
Validate ==
    /\ pc = "constructed"
    /\ Continue(validate(solver.sides, solver.angles, FALSE), "validated")
    /\ UNCHANGED <<given, solver, result, built, checks, solves, prior, branchVars>>

\* side_count == 3: self.calculate_three_angles()
ThreeAnglesDone(t) ==
    /\ solver' = [solver EXCEPT !.angles = t.angles]
    /\ Continue(t.err, "calculated")

CalculateThreeAngles ==
    /\ pc = "validated"
    /\ Count(solver.sides) = 3
    /\ ThreeAnglesDone(calculate_three_angles(solver.sides, solver.angles))
    /\ UNCHANGED <<given, result, built, checks, solves, prior, branchVars>>

\* side_count == 2: self.calculate_two_angles()
TwoAnglesDone(t) ==
    /\ solver' = [solver EXCEPT !.sides = t.sides, !.angles = t.angles,
                                !.alternative = t.alternative]
    /\ built' = t.built
    /\ checks' = t.checks
    /\ Continue(t.err, "calculated")

CalculateTwoAngles ==
    /\ pc = "validated"
    /\ Count(solver.sides) = 2
    /\ TwoAnglesDone(calculate_two_angles(
           [sides |-> solver.sides, angles |-> solver.angles,
            is_alternative |-> solver.is_alternative,
            alternative |-> solver.alternative,
            err |-> "none", built |-> built, checks |-> checks]))
    /\ UNCHANGED <<given, result, solves, prior, branchVars>>

\* side_count == 1: self.calculate_two_sides()
TwoSidesDone(t) ==
    /\ solver' = [solver EXCEPT !.sides = t.sides, !.angles = t.angles]
    /\ Continue(t.err, "calculated")

CalculateTwoSides ==
    /\ pc = "validated"
    /\ Count(solver.sides) = 1
    /\ TwoSidesDone(calculate_two_sides(solver.sides, solver.angles))
    /\ UNCHANGED <<given, result, built, checks, solves, prior, branchVars>>

\* self.validate(True)
ValidateComplete ==
    /\ pc = "calculated"
    /\ Continue(validate(solver.sides, solver.angles, TRUE), "checked")
    /\ UNCHANGED <<given, solver, result, built, checks, solves, prior, branchVars>>

\* self.calculate_other()
OtherDone(o) ==
    /\ solver' = [solver EXCEPT !.perimeter = o.perimeter, !.area = o.area,
                                !.altitudes = o.altitudes, !.medians = o.medians]
    /\ Continue(o.err, "solved")

CalculateOther ==
    /\ pc = "checked"
    /\ OtherDone(calculate_other(solver.sides, solver.angles))
    /\ UNCHANGED <<given, result, built, checks, solves, prior, branchVars>>

\* return Triangle(sides=solver.sides, ..., area=solver.area)
Triangle(sv) ==
    [sides |-> sv.sides, angles |-> sv.angles, altitudes |-> sv.altitudes,
     medians |-> sv.medians, perimeter |-> sv.perimeter, area |-> sv.area]

Return ==
    /\ pc = "solved"
    /\ result' = Some(Triangle(solver))
    /\ pc' = "returned"
    /\ UNCHANGED <<given, solver, err, built, checks, solves, prior, branchVars>>

\* the caller builds a TriangleSolver on the three sides and the three
\* angles of the Triangle it got, and solves again
ReSolve ==
    /\ pc = "returned"
    /\ solves < MaxSolves
    /\ solver' = TriangleSolver(Val(result).sides, Val(result).angles)
    /\ prior' = result
    /\ result' = None
    /\ pc' = "constructed"
    /\ built' = 0
    /\ checks' = 0
    /\ solves' = solves + 1
    /\ UNCHANGED <<given, err, branchVars>>

Next ==
    \/ Validate
    \/ CalculateThreeAngles
    \/ CalculateTwoAngles
    \/ CalculateTwoSides
    \/ ValidateComplete
    \/ CalculateOther
    \/ Return
    \/ ReSolve

Spec == Init /\ [][Next]_vars

TypeOK ==
    /\ pc \in {"constructed", "validated", "calculated", "checked", "solved",
               "returned", "raised"}
    /\ err \in {"none"} \cup TriangleError \cup RawError
    /\ (pc = "raised") = (err # "none")


(***************************************************************************)
(* The ambiguity branch of calculate_two_angles, statement by statement,   *)
(* in src/src/triangle.py and in src/src/__init__.py.  Lists are objects   *)
(* of the heap and an attribute holds the name of a list.                  *)
(***************************************************************************)
Impl == {"triangle.py", "__init__.py"}

\* validate of __init__.py from index i on: the outcomes it may have.
\* math.isclose has its default tolerances there (rel_tol=1e-09), finer than
\* the fixed point: two angles within AbsTol may be close or not, two angles
\* further apart are not; and the count checks are made on every call.
RECURSIVE InitValidateLoop(_, _, _, _)
InitValidateMatch(c, s, an, complete, i) ==
    IF c.err # "none" THEN {c.err}
    ELSE IF IsClose(c.angle, Val(an[i]))
    THEN {"INVALID_TRIANGLE"} \cup InitValidateLoop(s, an, complete, i + 1)
    ELSE InitValidateLoop(s, an, complete, i + 1)

InitValidateLoop(s, an, complete, i) ==
    IF i = 3 THEN {ValidateCounts(s, an)}
    ELSE IF s[i] # None /\ ~validate_side(s, i) THEN {"INVALID_SIDE"}
    ELSE IF an[i] = None THEN InitValidateLoop(s, an, complete, i + 1)
    ELSE IF ~validate_angle(an, i) THEN {"INVALID_ANGLE"}
    ELSE IF ~complete THEN InitValidateLoop(s, an, complete, i + 1)
    ELSE InitValidateMatch(LawOfCosines(s, i), s, an, complete, i)

\* the outcomes of validate(complete) in the source file im
ValidateIn(im, s, an, complete) ==
    IF im = "triangle.py" THEN {validate(s, an, complete)}
    ELSE InitValidateLoop(s, an, complete, 0)

\* the values of the two lists the solver object o refers to
ListsOf(h, o) == [sides |-> h[o.sides], angles |-> h[o.angles]]

\* the solver t reaches the branch at its first SSA step, with the known
\* angle at i and the other known side at j, once asin gave y for angles[j]
BranchEntry(y, t, i, j) ==
    /\ y <= Unit
    /\ y >= -Unit
    /\ is_ambigous(t.sides, [t.angles EXCEPT ![j] = Some(Asin(y))], i, j)
    /\ heap = [n \in {"self.sides", "self.angles"} |->
                  IF n = "self.sides" THEN t.sides
                  ELSE [t.angles EXCEPT ![j] = Some(Asin(y))]]
    /\ solver = t
    /\ branch = [pc |-> "ambiguous", err |-> "none", i |-> i, j |-> j]

\* solve is in calculate_two_angles, on two known sides and one known angle
\* that passed validate, and is_ambigous has just held for the first time
CopyInit ==
    /\ \E sd \in InputLists(SideInputs), an \in InputLists(AngleInputs), im \in Impl,
          i \in Idx, j \in Idx :
          /\ Known(sd) = 2
          /\ Known(an) = 1
          /\ i # j
          /\ NewSolver(sd, an).angles[i] # None
          /\ NewSolver(sd, an).sides[i] # None
          /\ NewSolver(sd, an).sides[j] # None
          /\ Val(NewSolver(sd, an).sides[i]) # 0
          /\ ValidateIn(im, NewSolver(sd, an).sides, NewSolver(sd, an).angles, FALSE)
                = {"none"}
          /\ given = [sides |-> sd, angles |-> an]
          /\ impl = im
          /\ BranchEntry(Ratio(Sin(Val(NewSolver(sd, an).angles[i])),
                               Val(NewSolver(sd, an).sides[j]),
                               Val(NewSolver(sd, an).sides[i])),
                         NewSolver(sd, an), i, j)
    /\ objs = [self |-> [sides |-> "self.sides", angles |-> "self.angles",
                         is_alternative |-> FALSE, alternative |-> None],
               copy |-> None]
    /\ snap = [primary |-> None, alternate |-> None]
    /\ pc = "validated"
    /\ err = "none"
    /\ result = None
    /\ built = 0
    /\ checks = 1
    /\ solves = 1
    /\ prior = None

\* the part of the state the branch leaves alone
BranchFrame == UNCHANGED <<given, solver, pc, err, result, checks, solves, prior, impl>>

\* the branch goes on at next, or ends with the exception e raised at pc
\* raised
BranchContinue(e, raised, next) ==
    branch' = [branch EXCEPT !.pc = IF e # "none" THEN raised ELSE next, !.err = e]

\* triangle.py: copy = TriangleSolver(); copy.is_alternative = True;
\*   copy.angles = list(self.angles); copy.sides = list(self.sides)
\* __init__.py: copy = dataclasses.replace(self), a new object whose fields
\*   are the fields of self; is_alternative is no field and stays False
MakeCopy ==
    /\ branch.pc = "ambiguous"
    /\ ~objs.self.is_alternative
    /\ IF impl = "triangle.py"
       THEN /\ heap' = [n \in DOMAIN heap \cup {"copy.sides", "copy.angles"} |->
                           IF n = "copy.sides" THEN heap["self.sides"]
                           ELSE IF n = "copy.angles" THEN heap["self.angles"]
                           ELSE heap[n]]
            /\ objs' = [objs EXCEPT !.copy =
                           Some([sides |-> "copy.sides", angles |-> "copy.angles",
                                 is_alternative |-> TRUE, alternative |-> None,
                                 perimeter |-> None, area |-> None])]
       ELSE /\ heap' = heap
            /\ objs' = [objs EXCEPT !.copy =
                           Some([sides |-> objs.self.sides, angles |-> objs.self.angles,
                                 is_alternative |-> FALSE, alternative |-> None,
                                 perimeter |-> None, area |-> None])]
    /\ snap' = [snap EXCEPT !.primary = Some(ListsOf(heap, objs.self))]
    /\ built' = built + 1
    /\ BranchContinue("none", "copy_raised", "copied")
    /\ BranchFrame

\* copy.angles[j] = math.pi - self.angles[j]
WriteAngle ==
    /\ branch.pc = "copied"
    /\ heap' = [heap EXCEPT ![Val(objs.copy).angles][branch.j] =
                   Some(PI - Val(heap[objs.self.angles][branch.j]))]
    /\ BranchContinue("none", "copy_raised", "written")
    /\ UNCHANGED <<objs, snap, built>>
    /\ BranchFrame

\* the lists of the object o take the sides and angles of t
StoreLists(t, o) ==
    heap' = [n \in DOMAIN heap |->
                IF n = o.sides THEN t.sides
                ELSE IF n = o.angles THEN t.angles
                ELSE heap[n]]

\* copy.calculate_two_sides()
CopyCompleted(t) ==
    /\ StoreLists(t, Val(objs.copy))
    /\ BranchContinue(t.err, "copy_raised", "completed")

CompleteCopy ==
    /\ branch.pc = "written"
    /\ CopyCompleted(calculate_two_sides(heap[Val(objs.copy).sides],
                                         heap[Val(objs.copy).angles]))
    /\ UNCHANGED <<objs, snap, built>>
    /\ BranchFrame

\* copy.validate(True)
ValidateCopy ==
    /\ branch.pc = "completed"
    /\ \E e \in ValidateIn(impl, heap[Val(objs.copy).sides],
                           heap[Val(objs.copy).angles], TRUE) :
          BranchContinue(e, "copy_raised", "validated")
    /\ UNCHANGED <<heap, objs, snap, built>>
    /\ BranchFrame

\* copy.calculate_other(); self.alternative = copy
\* (calculate_other of __init__.py sets the perimeter and the area only)
CopyAttached(o) ==
    /\ objs' = IF o.err # "none" /\ impl = "triangle.py" THEN objs
               ELSE [objs EXCEPT !.copy = Some([Val(objs.copy) EXCEPT
                                                   !.perimeter = o.perimeter,
                                                   !.area = o.area]),
                                 !.self.alternative = Some("copy")]
    /\ snap' = IF o.err # "none" /\ impl = "triangle.py" THEN snap
               ELSE [snap EXCEPT !.alternate = Some(ListsOf(heap, Val(objs.copy)))]
    /\ BranchContinue(IF impl = "triangle.py" THEN o.err ELSE "none",
                      "copy_raised", "attached")

AttachCopy ==
    /\ branch.pc = "validated"
    /\ CopyAttached(calculate_other(heap[Val(objs.copy).sides],
                                    heap[Val(objs.copy).angles]))
    /\ UNCHANGED <<heap, built>>
    /\ BranchFrame

\* self.calculate_two_sides()
PrimaryCompleted(t) ==
    /\ StoreLists(t, objs.self)
    /\ BranchContinue(t.err, "raised", "finished")

CompletePrimary ==
    /\ branch.pc = "attached"
    /\ PrimaryCompleted(calculate_two_sides(heap[objs.self.sides],
                                            heap[objs.self.angles]))
    /\ UNCHANGED <<objs, snap, built>>
    /\ BranchFrame

CopyNext ==
    \/ MakeCopy
    \/ WriteAngle
    \/ CompleteCopy
    \/ ValidateCopy
    \/ AttachCopy
    \/ CompletePrimary

CopySpec == CopyInit /\ [][CopyNext]_vars

(***************************************************************************)
(* Properties of solve                                                     *)
(***************************************************************************)
\* the solver the call of solve(sides, angles) started from
GivenSolver == NewSolver(given.sides, given.angles)

\* s[i] is less than the sum and more than the difference of the two others
Inequality(s, i) ==
    /\ Val(s[i]) < Val(s[RestA(i)]) + Val(s[RestB(i)])
    /\ Val(s[i]) > Abs(Val(s[RestA(i)]) - Val(s[RestB(i)]))

\* every known side and angle of the solver t passes the range checks
RangeOK(t) ==
    /\ \A i \in Idx :
          (t.sides[0] # None /\ t.sides[1] # None /\ t.sides[2] # None)
              => Inequality(t.sides, i)
    /\ \A i \in Idx : t.angles[i] # None => Val(t.angles[i]) < PI

\* what the number of known sides m and known angles n asks for
CountOutcome(m, n) ==
    IF m + n > 3 THEN "TOO_MANY_VARIABLES"
    ELSE IF m + n < 3 THEN "NOT_ENOUGH_VARIABLES"
    ELSE IF m = 0 THEN "NO_SIDES"
    ELSE "none"

KnownSides(t) == Cardinality({i \in Idx : t.sides[i] # None})
KnownAngles(t) == Cardinality({i \in Idx : t.angles[i] # None})

ValidateOutcome(e) ==
    /\ err' = e
    /\ pc' = IF e = "none" THEN "validated" ELSE "raised"

\* C1: when the known sides and angles pass the range checks, the first
\* validation of solve raises TOO_MANY_VARIABLES if more than 3 values are
\* known, NOT_ENOUGH_VARIABLES if fewer than 3 are, NO_SIDES if exactly 3
\* are known and none is a side, and nothing otherwise.
C1_CountErrors ==
    [][pc = "constructed" /\ RangeOK(solver)
           => ValidateOutcome(CountOutcome(KnownSides(solver), KnownAngles(solver)))]_vars

C1_Witness == solves = 1 /\ pc = "raised" /\ err = "NO_SIDES"

\* some angle passed to solve is not strictly between 0 and 180 degrees
GivenBadAngle ==
    \E k \in DOMAIN given.angles :
        /\ given.angles[k] # None
        /\ (Val(given.angles[k]) <= 0 \/ Val(given.angles[k]) >= 180 * AngScale)

\* C2: an input with a supplied angle outside (0, pi) makes solve fail with
\* INVALID_ANGLE, or with INVALID_SIDE when that is found first; the angle
\* is never accepted and never treated as unknown.
C2_BadAngleRejected ==
    solves = 1 /\ GivenBadAngle
        => \/ pc = "constructed"
           \/ pc = "raised" /\ err \in {"INVALID_ANGLE", "INVALID_SIDE"}

\* C3: every failing solve ends with a TriangleException of one of the six
\* TriangleError kinds; a value outside the domain of asin, acos or sqrt
\* gives INVALID_TRIANGLE, never an exception of the math library.
C3_OnlyTriangleErrors == pc = "raised" => err \in TriangleError

\* the ambiguity predicate on the angle asin(y) the SSA step gives index j
SsaRatioAmbiguous(y, t, i, j) ==
    /\ y <= Unit
    /\ y >= -Unit
    /\ is_ambigous(t.sides, [t.angles EXCEPT ![j] = Some(Asin(y))], i, j)

\* t is an SSA input, two positive sides and an angle within (0, pi), with
\* its angle at i and its other known side at j, for which the ambiguity
\* predicate holds
SsaAmbiguousAt(t, i, j) ==
    /\ i # j
    /\ KnownSides(t) = 2
    /\ KnownAngles(t) = 1
    /\ t.angles[i] # None
    /\ t.sides[i] # None
    /\ t.sides[j] # None
    /\ Val(t.sides[i]) > 0
    /\ Val(t.sides[j]) > 0
    /\ Val(t.angles[i]) > 0
    /\ Val(t.angles[i]) < PI
    /\ SsaRatioAmbiguous(Ratio(Sin(Val(t.angles[i])), Val(t.sides[j]), Val(t.sides[i])),
                         t, i, j)

\* the Triangle r carries a solved alternate whose angle j is pi minus its own
HasAlternate(r, j) ==
    /\ "alternative" \in DOMAIN r
    /\ r.alternative # None
    /\ \A i \in Idx : Val(r.alternative).sides[i] # None
                        /\ Val(r.alternative).angles[i] # None
    /\ Val(Val(r.alternative).angles[j]) = PI - Val(r.angles[j])

\* C4: for an SSA input on which the ambiguity predicate holds for the other
\* known side j, solve succeeds and the Triangle it returns carries a fully
\* solved alternate whose angle j is pi minus the angle j of the primary.
C4_AlternateReturned ==
    \A i, j \in Idx :
        solves = 1 /\ pc \in {"raised", "returned"} /\ SsaAmbiguousAt(GivenSolver, i, j)
            => pc = "returned" /\ HasAlternate(Val(result), j)

\* t is an SAS input: two positive sides and, at the index of the unknown
\* side, the one known angle, within (0, pi)
SasInput(t) ==
    /\ KnownSides(t) = 2
    /\ KnownAngles(t) = 1
    /\ \A i \in Idx :
          /\ t.sides[i] # None => Val(t.sides[i]) > 0
          /\ t.angles[i] # None =>
                t.sides[i] = None /\ Val(t.angles[i]) > 0 /\ Val(t.angles[i]) < PI

\* C5: a valid SAS input, whichever index holds its angle, is solved with
\* one solution: solve succeeds, the ambiguity check is never evaluated, no
\* copy is constructed and the solver has no alternate.
C5_SasUnique ==
    solves = 1 /\ SasInput(GivenSolver)
        => /\ pc # "raised"
           /\ checks = 0
           /\ built = 0
           /\ solver.alternative = None

\* the sides and angles of the Triangle r are those of q within tolerance
SameTriangle(r, q) ==
    \A i \in Idx :
        /\ Abs(Val(r.sides[i]) - Val(q.sides[i])) <= AbsTol
        /\ Abs(Val(r.angles[i]) - Val(q.angles[i])) <= AbsTol

\* C6 as stated: solving again with the three sides and three angles of a
\* successful solve succeeds and gives the same sides and angles.
C6_Idempotent ==
    solves > 1 /\ pc \in {"raised", "returned"}
        => pc = "returned" /\ SameTriangle(Val(result), Val(prior))

\* C6: solving again with the three sides and three angles of a successful
\* solve fails in the first validation with TOO_MANY_VARIABLES.
C6_ResolveTooMany ==
    solves > 1 /\ pc # "constructed"
        => pc = "raised" /\ err = "TOO_MANY_VARIABLES"

C6_Witness ==
    solves > 1 /\ pc = "raised" /\ prior # None /\ solver.sides = Val(prior).sides

\* the angle i of t is known, within (0, pi), and not the angle c the law
\* of cosines gives the sides of t
Inconsistent(c, t, i) ==
    /\ Val(t.angles[i]) > 0
    /\ Val(t.angles[i]) < PI
    /\ c.err = "none"
    /\ ~IsClose(c.angle, Val(t.angles[i]))

\* t gives three sides of a triangle and angles within range, one of which
\* those sides do not have
Overdetermined(t) ==
    /\ KnownSides(t) = 3
    /\ RangeOK(t)
    /\ \A i \in Idx : t.angles[i] # None => Val(t.angles[i]) > 0
    /\ \E i \in Idx : t.angles[i] # None /\ Inconsistent(LawOfCosines(t.sides, i), t, i)

\* C7 as stated: three sides of a triangle given with an angle they do not
\* have make solve fail with INVALID_TRIANGLE.
C7_InvalidTriangle ==
    solves = 1 /\ pc # "constructed" /\ Overdetermined(GivenSolver)
        => pc = "raised" /\ err = "INVALID_TRIANGLE"

\* C7: three sides of a triangle given with an angle they do not have make
\* solve fail with TOO_MANY_VARIABLES, before any consistency check.
C7_TooManyVariables ==
    solves = 1 /\ pc # "constructed" /\ Overdetermined(GivenSolver)
        => pc = "raised" /\ err = "TOO_MANY_VARIABLES"

C7_Witness == solves = 1 /\ pc = "raised" /\ Overdetermined(GivenSolver)

\* area * area is the product p, within a hundredth
HeronAgrees(area, p) ==
    IF area = 0 THEN p = 0
    ELSE Abs(area - Ratio(p, LenScale, area)) <= Abs(area) \div 100 + 10

\* C8: the perimeter of a solved triangle is the sum of its sides and its
\* area is the Heron area: area * area = s(s - a)(s - b)(s - c) with s half
\* the perimeter.
C8_PerimeterAndArea ==
    pc = "returned"
        => /\ Val(Val(result).perimeter)
                = Val(Val(result).sides[0]) + Val(Val(result).sides[1])
                    + Val(Val(result).sides[2])
           /\ HeronAgrees(Val(Val(result).area),
                          HeronProduct(Val(result).sides, Val(Val(result).perimeter)))

\* the three sides s are positive and satisfy the strict triangle inequality
ValidSides(s) ==
    \A i \in Idx : s[i] # None /\ Val(s[i]) > 0 /\ Inequality(s, i)

\* C9: every candidate solve completes without raising, the primary and the
\* alternate attached to it, has three positive sides, each less than the
\* sum and more than the absolute difference of the other two.
C9_CompletedSidesValid ==
    /\ pc \in {"checked", "solved", "returned"} => ValidSides(solver.sides)
    /\ pc = "returned" => ValidSides(Val(result).sides)
    /\ solver.alternative # None => ValidSides(Val(solver.alternative).sides)

C9_Witness == pc = "returned" /\ solver.alternative # None /\ solves = 1

\* C10: one call of solve constructs at most one alternate, and an
\* alternate has no alternate of its own.
C10_AtMostOneAlternate ==
    /\ built <= 1
    /\ solver.alternative # None => Val(solver.alternative).alternative = None

\* the lists of the primary hold what they held when the copy was made
PrimaryKept == ListsOf(heap, objs.self) = Val(snap.primary)

\* the lists of the alternate hold what they held when it was attached
AlternateKept == ListsOf(heap, Val(objs.copy)) = Val(snap.alternate)

\* in the source file im the copy is a value copy
ValueCopyIn(im) ==
    /\ impl = im /\ branch.pc \in {"copied", "written", "completed", "validated",
                                   "attached", "copy_raised"}
          => PrimaryKept
    /\ impl = im /\ branch.pc \in {"finished", "raised"} => AlternateKept

\* C11: in each TriangleSolver that has the ambiguity branch the alternate
\* is a value copy: writing pi - angles[j] into it and completing it leaves
\* the sides and angles of the primary unchanged, and completing the primary
\* afterwards leaves the sides and angles of the alternate unchanged.
C11_ValueCopy == \A im \in Impl : ValueCopyIn(im)

\* the square of the median to side i by the median formula:
\* (2 * a**2 + 2 * b**2 - c**2) / 4
MedianSquare(s, i) ==
    (2 * Val(s[RestA(i)]) * Val(s[RestA(i)]) + 2 * Val(s[RestB(i)]) * Val(s[RestB(i)])
       - Val(s[i]) * Val(s[i])) \div 4

\* the medians md of the sides s are the roots of the median formula, to the
\* last digit
MediansAgree(s, md) ==
    \A i \in Idx :
        /\ md[i] # None
        /\ Val(md[i]) * Val(md[i]) <= MedianSquare(s, i) + 1
        /\ (Val(md[i]) + 1) * (Val(md[i]) + 1) > MedianSquare(s, i) - 1

\* C12: for every solved triangle and every index i the computed median[i]
\* is the median to side i: its square is (2a^2 + 2b^2 - side[i]^2) / 4 with
\* a and b the other two sides; this holds for the Triangle returned and for
\* an alternate attached to the solver.
C12_MedianFormula ==
    /\ pc = "returned" => MediansAgree(Val(result).sides, Val(result).medians)
    /\ solver.alternative # None
          => MediansAgree(Val(solver.alternative).sides, Val(solver.alternative).medians)

C12_Witness ==
    /\ pc = "returned"
    /\ Val(result).sides[0] # Val(result).sides[1]
    /\ Val(result).sides[1] # Val(result).sides[2]
    /\ \A i \in Idx : Val(result).medians[i] # None /\ Val(Val(result).medians[i]) > 0
====
